---- MODULE Spec2Model ----
(***************************************************************************)
(* The table-of-contents scroll tracker (components/table-of-contents.tsx) *)
(* of the technical blog platform, as a state machine: the component's     *)
(* React state (headings, activeId), the IntersectionObserver it creates   *)
(* in its effect, and the document it scans, together with the events the  *)
(* browser and the reader produce (visibility changes, entry activations,  *)
(* changes to the document, mount and unmount).                            *)
(***************************************************************************)
EXTENDS Naturals, Sequences, FiniteSets, TLC

\* ------------------------------------------------------------------ bounds
MaxElems == 2      \* element objects that can exist
MaxEdits == 1      \* changes made to the document after the initial layout

\* ------------------------------------------------------------ the document
Elems == 1 .. MaxElems

\* tagName of an element, as its sequence of characters
H1 == <<"H", "1">>
H2 == <<"H", "2">>
H3 == <<"H", "3">>
Tags == {H1, H2, H3}
NoTag == <<>>                 \* the element object has not been created

\* values of the id attribute; "" is an element with no id
Ids == {"", "section-2", "section-3"}

NoElem == 0                   \* null

VARIABLES
    doc,        \* the elements attached to the document, in document order
    tag,        \* tag[e]: tagName of element e (NoTag: not created)
    id,         \* id[e]: the id of element e
    edits,      \* number of changes made to the document since the layout
    pc,         \* "unmounted", "mounting" (rendered, effect pending), "mounted"
    headings,   \* React state: the TocItem list
    activeId,   \* React state: id of the active heading
    elements,   \* the effect's const elements (the collected h2/h3 elements)
    observers,  \* the live IntersectionObservers: for each, its set of targets
    nav         \* what the step just taken did as an entry activation

\* the other programs of the repository, each run by a specification of its own
VARIABLES
    mdx,        \* the headings rendered from an MDX document: tag, children, id
    deploy,     \* a run of the pre-deployment script, with its environment
    health,     \* the server process of the health endpoint, with its responses
    hooks,      \* a run of the Git hooks setup script, with its environment
    ui          \* the theme toggle: next-themes' theme and systemTheme, mounted

tocVars == <<doc, tag, id, edits, pc, headings, activeId, elements, observers, nav>>

\* what a step of the table-of-contents component leaves alone
otherVars == <<mdx, deploy, health, hooks, ui>>

vars == <<tocVars, otherVars>>

docVars == <<doc, tag, id, edits>>

Range(s) == {s[i] : i \in 1 .. Len(s)}

\* element.textContent of a heading (the text of the element; never null)
TextContent(e) == ToString(e)

\* parseInt of a one-digit string
ParseInt(c) == CASE c = "1" -> 1 [] c = "2" -> 2 [] c = "3" -> 3

\* tagName.charAt(1)
CharAt1(t) == t[2]

\* ------------------------------------------------------------- extraction
\* mutant: the selector is 'h2' alone
QuerySelectorAllH2(d, tg) == SelectSeq(d, LAMBDA e : tg[e] = H2)

\* document.querySelectorAll('h2, h3'), as an array in document order
QuerySelectorAll(d, tg) == SelectSeq(d, LAMBDA e : tg[e] \in {H2, H3})

\* elements.map(element => ({ id, text, level }))
TocItem(e, tg, ident) ==
    [id |-> ident[e], text |-> TextContent(e), level |-> ParseInt(CharAt1(tg[e]))]

Items(els, tg, ident) == [i \in 1 .. Len(els) |-> TocItem(els[i], tg, ident)]

\* document.getElementById(x): the first element of the document with that
\* id, null when there is none (no element matches the empty id)
RECURSIVE FirstWithId(_, _, _)
FirstWithId(d, ident, x) ==
    IF d = <<>> THEN NoElem
    ELSE IF ident[Head(d)] = x THEN Head(d)
    ELSE FirstWithId(Tail(d), ident, x)

\* mutant: the empty id is looked up like any other id
GetElementByIdMatchEmpty(d, ident, x) == FirstWithId(d, ident, x)

GetElementById(d, ident, x) == IF x = "" THEN NoElem ELSE FirstWithId(d, ident, x)

\* --------------------------------------------------------------- tracking
\* mutant: the test on isIntersecting is inverted
RECURSIVE ObserverCallbackInverted(_, _, _)
ObserverCallbackInverted(active, entries, ident) ==
    IF entries = <<>> THEN active
    ELSE ObserverCallbackInverted(
             IF ~Head(entries).isIntersecting THEN ident[Head(entries).target] ELSE active,
             Tail(entries), ident)

\* mutant: an entry that is not intersecting clears activeId
RECURSIVE ObserverCallbackClears(_, _, _)
ObserverCallbackClears(active, entries, ident) ==
    IF entries = <<>> THEN active
    ELSE ObserverCallbackClears(
             IF Head(entries).isIntersecting THEN ident[Head(entries).target] ELSE "",
             Tail(entries), ident)

\* mutant: the callback stops at the first intersecting entry
ObserverCallbackFirstWins(active, entries, ident) ==
    LET hits == {i \in 1 .. Len(entries) : entries[i].isIntersecting}
    IN  IF hits = {} THEN active
        ELSE ident[entries[CHOOSE i \in hits : \A j \in hits : i <= j].target]

\* entries.forEach(entry => { if (entry.isIntersecting) setActiveId(entry.target.id) })
RECURSIVE ObserverCallback(_, _, _)
ObserverCallback(active, entries, ident) ==
    IF entries = <<>> THEN active
    ELSE ObserverCallback(
             IF Head(entries).isIntersecting THEN ident[Head(entries).target] ELSE active,
             Tail(entries), ident)

\* mutant: an observer is told about every element, observed or not
EntriesForAll(targets, batch) == batch

\* the entries of a batch that an observer with these targets is told about
EntriesFor(targets, batch) == SelectSeq(batch, LAMBDA en : en.target \in targets)

\* every live observer gets its entries, in the order the observers were created
RECURSIVE Deliver(_, _, _, _)
Deliver(obs, active, batch, ident) ==
    IF obs = <<>> THEN active
    ELSE Deliver(Tail(obs),
                 ObserverCallback(active, EntriesFor(Head(obs), batch), ident),
                 batch, ident)

\* --------------------------------------------------------------- rendering
\* the render output: null, or the nav element with its list entries
NULL == [nav |-> FALSE, entries |-> <<>>]

\* mutant: the subtraction is the wrong way round
PaddingLeftInverted(level) == (3 - level) * 75

\* paddingLeft in hundredths of a rem: (level - 2) * 0.75rem
PaddingLeft(level) == (level - 2) * 75

ActiveClass == "text-blue-600 dark:text-blue-400 font-medium"
InactiveClass == "text-gray-600 dark:text-gray-400"

\* mutant: the two branches of the className conditional are swapped
RenderEntrySwapped(h, active) ==
    [key |-> h.id, href |-> <<"#", h.id>>, paddingLeft |-> PaddingLeft(h.level),
     className |-> IF active = h.id THEN InactiveClass ELSE ActiveClass,
     text |-> h.text]

\* the li of one heading, with its link
RenderEntry(h, active) ==
    [key |-> h.id, href |-> <<"#", h.id>>, paddingLeft |-> PaddingLeft(h.level),
     className |-> IF active = h.id THEN ActiveClass ELSE InactiveClass,
     text |-> h.text]

\* mutant: no early return for an empty list (an empty list shell is rendered)
RenderOfShell(hs, active) ==
    [nav |-> TRUE, entries |-> [i \in 1 .. Len(hs) |-> RenderEntry(hs[i], active)]]

\* what the component's render function returns for a given state
RenderOf(hs, active) ==
    IF Len(hs) = 0 THEN NULL
    ELSE [nav |-> TRUE, entries |-> [i \in 1 .. Len(hs) |-> RenderEntry(hs[i], active)]]

\* what the component shows: nothing when it is not in the tree
Render == IF pc = "unmounted" THEN NULL ELSE RenderOf(headings, activeId)

\* ------------------------------------------------------------ page layout
\* ({ children, showToc = true }): every page uses the default
DefaultShowToc == TRUE

\* the grid of BlogPostLayout: the article, and the aside wrapped around the
\* table of contents when showToc holds (whatever the component renders)
BlogPostLayout(showToc, toc) ==
    [article |-> TRUE,
     aside |-> IF showToc THEN [present |-> TRUE, content |-> toc]
               ELSE [present |-> FALSE, content |-> NULL]]

\* the article page around the mounted component
Page == BlogPostLayout(DefaultShowToc, Render)

\* -------------------------------------------------------------- navigation
NoNav == [clicked |-> 0]

\* mutant: e.preventDefault() is missing
OnClickNoPrevent(i, h, d, ident) ==
    LET target == GetElementById(d, ident, h.id)
    IN  [clicked |-> i, id |-> h.id, defaultPrevented |-> FALSE,
         scrolls |-> IF target = NoElem THEN <<>>
                     ELSE <<[el |-> target, behavior |-> "smooth", block |-> "start"]>>,
         threw |-> FALSE]

\* mutant: getElementById(...).scrollIntoView without the ?. guard
OnClickNoGuard(i, h, d, ident) ==
    LET target == GetElementById(d, ident, h.id)
    IN  [clicked |-> i, id |-> h.id, defaultPrevented |-> TRUE,
         scrolls |-> IF target = NoElem THEN <<>>
                     ELSE <<[el |-> target, behavior |-> "smooth", block |-> "start"]>>,
         threw |-> (target = NoElem)]

\* the onClick handler of the entry for heading h
OnClick(i, h, d, ident) ==
    LET target == GetElementById(d, ident, h.id)
    IN  [clicked |-> i, id |-> h.id, defaultPrevented |-> TRUE,
         scrolls |-> IF target = NoElem THEN <<>>
                     ELSE <<[el |-> target, behavior |-> "smooth", block |-> "start"]>>,
         threw |-> FALSE]

\* ------------------------------------------------------------ heading ids
\* (mdx-components.tsx) a text is a sequence of characters
MaxText == 2       \* characters of a heading text
MaxHeadings == 2   \* headings of an MDX document

\* one character of each class slugify tells apart, and the hyphen it writes
Chars == {"a", "B", "1", " ", "-"}

Texts == UNION {[1 .. n -> Chars] : n \in 0 .. MaxText}

\* the texts slugify is tried on alone
MaxInput == 3      \* characters of a text given to slugify
Inputs == UNION {[1 .. n -> Chars] : n \in 0 .. MaxInput}

\* children that are not a string (an array of nodes, an element)
NonString == <<"<node>">>

\* String.prototype.toLowerCase
LowerChar(c) == IF c = "B" THEN "b" ELSE c

ToLowerCase(t) == [i \in 1 .. Len(t) |-> LowerChar(t[i])]

\* the class [a-z0-9]
IsAlnum(c) == c \in {"a", "b", "1"}

\* .replace(/[^a-z0-9]+/g, '-'): each maximal run of other characters becomes one hyphen
RECURSIVE ReplaceRuns(_)
ReplaceRuns(t) ==
    IF t = <<>> THEN <<>>
    ELSE IF IsAlnum(Head(t)) THEN <<Head(t)>> \o ReplaceRuns(Tail(t))
    ELSE IF Len(t) > 1 /\ ~IsAlnum(t[2]) THEN ReplaceRuns(Tail(t))
    ELSE <<"-">> \o ReplaceRuns(Tail(t))

\* .replace(/(^-|-$)/g, ''): a hyphen at the start and a hyphen at the end are removed
StripEnds(t) ==
    LET a == IF t # <<>> /\ Head(t) = "-" THEN Tail(t) ELSE t
    IN  IF a # <<>> /\ a[Len(a)] = "-" THEN SubSeq(a, 1, Len(a) - 1) ELSE a

\* mutant: the second replace is missing
slugifyNoStrip(t) == ReplaceRuns(ToLowerCase(t))

slugify(t) == StripEnds(ReplaceRuns(ToLowerCase(t)))

\* const id = typeof children === 'string' ? slugify(children) : ''
HeadingId(children) == IF children = NonString THEN <<>> ELSE slugify(children)

\* the h1, h2 or h3 element that useMDXComponents renders for a heading
MdxHeading(t, children) == [tag |-> t, children |-> children, id |-> HeadingId(children)]

\* ------------------------------------------------- pre-deployment script
\* the commands of the script, in the order of the script
NpmCi == "npm ci --quiet"
Lint == "npm run lint"
Tsc == "npx tsc --noEmit"
Build == "npm run build"
DockerBuild == "docker build -t technical-blog:pre-deploy-test ."
DockerRmi == "docker rmi technical-blog:pre-deploy-test"

Commands == {NpmCi, Lint, Tsc, Build, DockerBuild, DockerRmi}

\* exit statuses of a command: 0 is success
MaxStatus == 2
Statuses == 0 .. MaxStatus

NoExit == MaxStatus + 1       \* the script has not exited

\* what a run finds: package.json in the directory, docker on the PATH, and
\* the exit status each command would return
DeployEnvs == [packageJson : BOOLEAN, docker : BOOLEAN, status : [Commands -> Statuses]]

NotRun == [at |-> "none"]

\* the script exits (exit n, set -e, or the end of the script)
Exit(d, n) == [d EXCEPT !.at = "exited", !.exit = n]

\* a step without set -e: the script goes on whatever the command returns
RunUnchecked(d, c, announce, msg, next) ==
    [d EXCEPT !.ran = Append(@, c), !.out = Append(Append(@, announce), msg), !.at = next]

\* a step under set -e: the announcement is echoed and the command run; on
\* success the message is echoed and the script goes on, otherwise the script
\* exits with the command's status
RunChecked(d, c, announce, msg, next) ==
    LET r == [d EXCEPT !.ran = Append(@, c), !.out = Append(@, announce)]
    IN  IF d.env.status[c] = 0
        THEN [r EXCEPT !.out = Append(@, msg), !.at = next]
        ELSE Exit(r, d.env.status[c])

DockerWarning == "Docker not found, skipping Docker build test"
SuccessMessage == "All pre-deployment checks passed!"

\* ------------------------------------------------------- health endpoint
MaxClock == 3      \* ticks of the server's clock
MaxRequests == 2   \* requests served

\* process.env.NODE_ENV
Undefined == "undefined"
NodeEnvs == {"development", "production", "test", Undefined}

NotServing == [env |-> "none"]

\* JSON.stringify drops a member whose value is undefined
JsonBody(now, env) ==
    IF env = Undefined
    THEN [status |-> "ok", timestamp |-> now]
    ELSE [status |-> "ok", timestamp |-> now, environment |-> env]

\* a handler that reports an error when NODE_ENV is not set
GETStrict(now, env) ==
    IF env = Undefined
    THEN [status |-> 500, body |-> [status |-> "error", timestamp |-> now]]
    ELSE [status |-> 200, body |-> JsonBody(now, env)]

\* export async function GET()
GET(now, env) == [status |-> 200, body |-> JsonBody(now, env)]

\* ---------------------------------------------------- Git hooks setup script
\* values of core.hooksPath in the git configuration
Unset == "unset"
GitHooksDir == ".githooks"
HooksPaths == {Unset, GitHooksDir, ".husky"}

\* what a run finds: /.dockerenv, a non-empty $CI, a non-empty $DOCKER_BUILD,
\* git on the PATH, a git repository around the current directory, the value
\* of core.hooksPath and the exit status git config would return
SetupEnvs ==
    [dockerenv : BOOLEAN, ci : BOOLEAN, dockerBuild : BOOLEAN, git : BOOLEAN,
     repo : BOOLEAN, hooksPath : HooksPaths, configStatus : Statuses]

NoSetup == [at |-> "none"]

\* the script exits: the message, then exit 0
Skip(h, msg) == [h EXCEPT !.out = Append(@, msg), !.at = "exited", !.exit = 0]

\* git config core.hooksPath .githooks: the value is written when git succeeds
GitConfig(h) ==
    IF h.env.configStatus = 0 THEN [h EXCEPT !.hooksPath = GitHooksDir] ELSE h

\* ------------------------------------------------------------ theme toggle
MaxEvents == 3     \* clicks and system theme changes that are recorded

Themes == {"system", "light", "dark"}
SystemThemes == {"light", "dark", Undefined}

NoToggle == [mounted |-> FALSE, theme |-> "none"]

\* const currentTheme = theme === 'system' ? systemTheme : theme
CurrentTheme(theme, systemTheme) == IF theme = "system" THEN systemTheme ELSE theme

\* mutant: the stored theme is tested instead of the resolved one
OnToggleStored(theme, systemTheme) == IF theme = "dark" THEN "light" ELSE "dark"

\* onClick={() => setTheme(currentTheme === "dark" ? "light" : "dark")}
OnToggle(theme, systemTheme) ==
    IF CurrentTheme(theme, systemTheme) = "dark" THEN "light" ELSE "dark"

\* ------------------------------------------------------------------- Init
Init ==
    /\ \E k \in 0 .. MaxElems : doc = [i \in 1 .. k |-> i]
    /\ tag \in [Elems -> Tags \cup {NoTag}]
    /\ \A e \in Elems : (tag[e] = NoTag) <=> (e \notin Range(doc))
    /\ id \in [Elems -> Ids]
    /\ \A e \in Elems : e \notin Range(doc) => id[e] = ""
    /\ edits = 0
    /\ pc = "unmounted"
    /\ headings = <<>>
    /\ activeId = ""
    /\ elements = <<>>
    /\ observers = <<>>
    /\ nav = NoNav
    /\ mdx = <<>>
    /\ deploy = NotRun
    /\ health = NotServing
    /\ hooks = NoSetup
    /\ ui = NoToggle

\* ---------------------------------------------------------------- actions
\* mutant: the observer is created and registered during render, before the effect
MountObserveEarly ==
    /\ pc = "unmounted"
    /\ pc' = "mounting"
    /\ headings' = <<>>
    /\ activeId' = ""
    /\ observers' = Append(observers, Range(QuerySelectorAll(doc, tag)))
    /\ nav' = NoNav
    /\ UNCHANGED <<docVars, elements>>

\* mutant: the state of the previous instance is kept (a store outside the component)
MountKeepState ==
    /\ pc = "unmounted"
    /\ pc' = "mounting"
    /\ nav' = NoNav
    /\ UNCHANGED <<docVars, headings, activeId, elements, observers>>

\* first render of a new instance: useState([]) and useState('')
Mount ==
    /\ pc = "unmounted"
    /\ pc' = "mounting"
    /\ headings' = <<>>
    /\ activeId' = ""
    /\ nav' = NoNav
    /\ UNCHANGED <<docVars, elements, observers>>

\* mutant: only the elements that have an id are observed
EffectObserveWithId ==
    /\ pc = "mounting"
    /\ elements' = QuerySelectorAll(doc, tag)
    /\ headings' = Items(elements', tag, id)
    /\ observers' = Append(observers, {e \in Range(elements') : id[e] # ""})
    /\ pc' = "mounted"
    /\ nav' = NoNav
    /\ UNCHANGED <<docVars, activeId>>

\* the useEffect body, run once after the first render
Effect ==
    /\ pc = "mounting"
    /\ elements' = QuerySelectorAll(doc, tag)
    /\ headings' = Items(elements', tag, id)
    /\ observers' = Append(observers, Range(elements'))
    /\ pc' = "mounted"
    /\ nav' = NoNav
    /\ UNCHANGED <<docVars, activeId>>

\* mutant: the effect returns no cleanup
UnmountLeak ==
    /\ pc = "mounted"
    /\ pc' = "unmounted"
    /\ nav' = NoNav
    /\ UNCHANGED <<docVars, headings, activeId, elements, observers>>

\* mutant: the cleanup calls observer.unobserve(elements[0]) instead of disconnect()
UnmountUnobserveFirst ==
    /\ pc = "mounted"
    /\ observers' = [observers EXCEPT ![Len(observers)] =
                        IF elements = <<>> THEN @ ELSE @ \ {elements[1]}]
    /\ pc' = "unmounted"
    /\ nav' = NoNav
    /\ UNCHANGED <<docVars, headings, activeId, elements>>

\* unmount runs the effect's cleanup: observer.disconnect()
Unmount ==
    /\ pc = "mounted"
    /\ observers' = SubSeq(observers, 1, Len(observers) - 1)
    /\ pc' = "unmounted"
    /\ nav' = NoNav
    /\ UNCHANGED <<docVars, headings, activeId, elements>>

\* a batch of visibility changes: at most one entry for each element, and only
\* an element attached to the document can be intersecting
Created == {e \in Elems : tag[e] # NoTag}

Entries == {en \in [target : Created, isIntersecting : BOOLEAN] :
               en.isIntersecting => en.target \in Range(doc)}

Batches ==
    UNION {{b \in [1 .. n -> Entries] : \A i, j \in 1 .. n : i # j => b[i].target # b[j].target} :
           n \in 1 .. Cardinality(Created)}

\* mutant: the effect depends on [activeId], so it runs again (cleanup, scan,
\* new observer) whenever a report changes activeId
VisibilityChangeRescan(batch) ==
    /\ activeId' = Deliver(observers, activeId, batch, id)
    /\ nav' = NoNav
    /\ IF activeId' # activeId /\ pc = "mounted"
       THEN /\ elements' = QuerySelectorAll(doc, tag)
            /\ headings' = Items(elements', tag, id)
            /\ observers' = Append(SubSeq(observers, 1, Len(observers) - 1), Range(elements'))
       ELSE UNCHANGED <<headings, elements, observers>>
    /\ UNCHANGED <<docVars, pc>>

\* the browser reports visibility changes to the observers watching the targets
VisibilityChange(batch) ==
    /\ activeId' = Deliver(observers, activeId, batch, id)
    /\ nav' = NoNav
    /\ UNCHANGED <<docVars, pc, headings, elements, observers>>

\* mutant: the handler also marks the activated entry as the active one
ClickActivates(i) ==
    /\ pc = "mounted"
    /\ i \in 1 .. Len(headings)
    /\ nav' = OnClick(i, headings[i], doc, id)
    /\ activeId' = headings[i].id
    /\ UNCHANGED <<docVars, pc, headings, elements, observers>>

\* the reader activates the i-th entry of the rendered list
Click(i) ==
    /\ pc = "mounted"
    /\ i \in 1 .. Len(headings)
    /\ nav' = OnClick(i, headings[i], doc, id)
    /\ UNCHANGED <<docVars, pc, headings, activeId, elements, observers>>

\* the document changes underneath the component
InsertElement(e, pos, t, x) ==
    /\ edits < MaxEdits
    /\ tag[e] = NoTag
    /\ pos \in 1 .. Len(doc) + 1
    /\ doc' = SubSeq(doc, 1, pos - 1) \o <<e>> \o SubSeq(doc, pos, Len(doc))
    /\ tag' = [tag EXCEPT ![e] = t]
    /\ id' = [id EXCEPT ![e] = x]
    /\ edits' = edits + 1
    /\ nav' = NoNav
    /\ UNCHANGED <<pc, headings, activeId, elements, observers>>

RemoveElement(e) ==
    /\ edits < MaxEdits
    /\ e \in Range(doc)
    /\ doc' = SelectSeq(doc, LAMBDA x : x # e)
    /\ edits' = edits + 1
    /\ nav' = NoNav
    /\ UNCHANGED <<tag, id, pc, headings, activeId, elements, observers>>

SetElementId(e, x) ==
    /\ edits < MaxEdits
    /\ e \in Range(doc)
    /\ id[e] # x
    /\ id' = [id EXCEPT ![e] = x]
    /\ edits' = edits + 1
    /\ nav' = NoNav
    /\ UNCHANGED <<doc, tag, pc, headings, activeId, elements, observers>>

Next ==
    \/ Mount /\ UNCHANGED otherVars
    \/ Effect /\ UNCHANGED otherVars
    \/ Unmount /\ UNCHANGED otherVars
    \/ \E batch \in Batches : VisibilityChange(batch) /\ UNCHANGED otherVars
    \/ \E i \in 1 .. MaxElems : Click(i) /\ UNCHANGED otherVars
    \/ \E e \in Elems, pos \in 1 .. MaxElems, t \in Tags, x \in Ids :
           InsertElement(e, pos, t, x) /\ UNCHANGED otherVars
    \/ \E e \in Elems : RemoveElement(e) /\ UNCHANGED otherVars
    \/ \E e \in Elems, x \in Ids : SetElementId(e, x) /\ UNCHANGED otherVars

Spec == Init /\ [][Next]_vars

\* ------------------------------------------------ rendering an MDX document
\* the table-of-contents component is not in the tree
TocIdle ==
    /\ doc = <<>>
    /\ tag = [e \in Elems |-> NoTag]
    /\ id = [e \in Elems |-> ""]
    /\ edits = 0
    /\ pc = "unmounted"
    /\ headings = <<>>
    /\ activeId = ""
    /\ elements = <<>>
    /\ observers = <<>>
    /\ nav = NoNav

SlugInit ==
    /\ TocIdle
    /\ mdx = <<>>
    /\ deploy = NotRun
    /\ health = NotServing
    /\ hooks = NoSetup
    /\ ui = NoToggle

\* the next heading of the document is rendered
RenderHeading(t, children) ==
    /\ Len(mdx) < MaxHeadings
    /\ mdx' = Append(mdx, MdxHeading(t, children))
    /\ UNCHANGED <<tocVars, deploy, health, hooks, ui>>

SlugNext == \E t \in Tags, children \in Texts \cup {NonString} : RenderHeading(t, children)

SpecSlug == SlugInit /\ [][SlugNext]_vars

\* the first heading of a document, with any text as its children
RenderFirstHeading(t, children) ==
    /\ mdx = <<>>
    /\ mdx' = <<MdxHeading(t, children)>>
    /\ UNCHANGED <<tocVars, deploy, health, hooks, ui>>

SlugifyNext == \E t \in Tags, children \in Inputs : RenderFirstHeading(t, children)

SpecSlugify == SlugInit /\ [][SlugifyNext]_vars

\* --------------------------------------------- running the pre-deploy script
DeployInit ==
    /\ TocIdle
    /\ mdx = <<>>
    /\ health = NotServing
    /\ hooks = NoSetup
    /\ ui = NoToggle
    /\ \E env \in DeployEnvs :
           deploy = [at |-> "root", env |-> env, ran |-> <<>>,
                     out |-> <<"Running pre-deployment checks...">>,
                     exit |-> NoExit]

notDeploy == <<tocVars, mdx, health, hooks, ui>>

\* mutant: the error is printed but the exit 1 is missing
CheckRootNoExit ==
    /\ deploy.at = "root"
    /\ deploy' = IF deploy.env.packageJson
                 THEN [deploy EXCEPT !.at = "deps"]
                 ELSE [deploy EXCEPT !.out = Append(@, "Error: Must be run from project root directory"),
                                     !.at = "deps"]
    /\ UNCHANGED notDeploy

\* if [ ! -f "package.json" ]; then echo ...; exit 1; fi
CheckRoot ==
    /\ deploy.at = "root"
    /\ deploy' = IF deploy.env.packageJson
                 THEN [deploy EXCEPT !.at = "deps"]
                 ELSE Exit([deploy EXCEPT !.out = Append(@, "Error: Must be run from project root directory")], 1)
    /\ UNCHANGED notDeploy

\* 1. npm ci --quiet
Dependencies ==
    /\ deploy.at = "deps"
    /\ deploy' = RunChecked(deploy, NpmCi, "Checking dependencies...",
                            "Dependencies installed", "lint")
    /\ UNCHANGED notDeploy

\* 2. npm run lint
Linting ==
    /\ deploy.at = "lint"
    /\ deploy' = RunChecked(deploy, Lint, "Running linter...", "Linting passed", "types")
    /\ UNCHANGED notDeploy

\* 3. npx tsc --noEmit
TypeChecking ==
    /\ deploy.at = "types"
    /\ deploy' = RunChecked(deploy, Tsc, "Type checking...", "Type checking passed", "build")
    /\ UNCHANGED notDeploy

\* 4. npm run build
BuildTest ==
    /\ deploy.at = "build"
    /\ deploy' = RunChecked(deploy, Build, "Building production bundle...",
                            "Build successful", "docker")
    /\ UNCHANGED notDeploy

\* the Docker step with the result of docker build ignored (docker build || true)
DockerTestUnchecked ==
    /\ deploy.at = "docker"
    /\ deploy' =
          IF deploy.env.docker
          THEN [deploy EXCEPT !.ran = Append(Append(@, DockerBuild), DockerRmi),
                              !.out = Append(Append(@, "Testing Docker build..."),
                                             "Docker build successful"),
                              !.at = "end"]
          ELSE [deploy EXCEPT !.out = Append(Append(@, "Testing Docker build..."),
                                             DockerWarning),
                              !.at = "end"]
    /\ UNCHANGED notDeploy

\* 5. if command -v docker: docker build under set -e, then docker rmi || true
\* (its status is ignored); else the warning
DockerTest ==
    /\ deploy.at = "docker"
    /\ deploy' =
          IF deploy.env.docker
          THEN LET b == RunChecked(deploy, DockerBuild, "Testing Docker build...",
                                   "Docker build successful", "end")
               IN  IF b.at = "exited" THEN b ELSE [b EXCEPT !.ran = Append(@, DockerRmi)]
          ELSE [deploy EXCEPT !.out = Append(Append(@, "Testing Docker build..."),
                                             DockerWarning),
                              !.at = "end"]
    /\ UNCHANGED notDeploy

\* the two final echo lines and the end of the script
Finish ==
    /\ deploy.at = "end"
    /\ deploy' = Exit([deploy EXCEPT !.out = Append(Append(@, SuccessMessage),
                                                     "Ready to deploy to production")], 0)
    /\ UNCHANGED notDeploy

DeployNext ==
    \/ CheckRoot
    \/ Dependencies
    \/ Linting
    \/ TypeChecking
    \/ BuildTest
    \/ DockerTest
    \/ Finish

SpecDeploy == DeployInit /\ [][DeployNext]_vars

\* ------------------------------------------------ serving the health endpoint
HealthInit ==
    /\ TocIdle
    /\ mdx = <<>>
    /\ deploy = NotRun
    /\ hooks = NoSetup
    /\ ui = NoToggle
    /\ \E env \in NodeEnvs : health = [env |-> env, clock |-> 0, responses |-> <<>>]

notHealth == <<tocVars, mdx, deploy, hooks, ui>>

\* time passes
Tick ==
    /\ health.clock < MaxClock
    /\ health' = [health EXCEPT !.clock = @ + 1]
    /\ UNCHANGED notHealth

\* a GET request to /api/health is served
Request ==
    /\ Len(health.responses) < MaxRequests
    /\ health' = [health EXCEPT !.responses = Append(@, GET(health.clock, health.env))]
    /\ UNCHANGED notHealth

HealthNext == Tick \/ Request

SpecHealth == HealthInit /\ [][HealthNext]_vars

\* ------------------------------------------- running the hooks setup script
SetupInit ==
    /\ TocIdle
    /\ mdx = <<>>
    /\ deploy = NotRun
    /\ health = NotServing
    /\ ui = NoToggle
    /\ \E env \in SetupEnvs :
           hooks = [at |-> "env", env |-> env, hooksPath |-> env.hooksPath, out |-> <<>>,
                    exit |-> NoExit]

notHooks == <<tocVars, mdx, deploy, health, ui>>

\* mutant: $CI is not looked at
CheckEnvironmentNoCI ==
    /\ hooks.at = "env"
    /\ hooks' = IF hooks.env.dockerenv \/ hooks.env.dockerBuild
                THEN Skip(hooks, "Docker/CI environment detected - skipping Git hooks setup")
                ELSE [hooks EXCEPT !.at = "git"]
    /\ UNCHANGED notHooks

\* if [ -f "/.dockerenv" ] || [ -n "$CI" ] || [ -n "$DOCKER_BUILD" ]; then ... exit 0
CheckEnvironment ==
    /\ hooks.at = "env"
    /\ hooks' = IF hooks.env.dockerenv \/ hooks.env.ci \/ hooks.env.dockerBuild
                THEN Skip(hooks, "Docker/CI environment detected - skipping Git hooks setup")
                ELSE [hooks EXCEPT !.at = "git"]
    /\ UNCHANGED notHooks

\* if ! command -v git; then ... exit 0
CheckGit ==
    /\ hooks.at = "git"
    /\ hooks' = IF ~hooks.env.git
                THEN Skip(hooks, "Git not found - skipping hooks setup")
                ELSE [hooks EXCEPT !.at = "repo"]
    /\ UNCHANGED notHooks

\* if ! git rev-parse --git-dir; then ... exit 0
CheckRepository ==
    /\ hooks.at = "repo"
    /\ hooks' = IF ~hooks.env.repo
                THEN Skip(hooks, "Not a git repository - skipping hooks setup")
                ELSE [hooks EXCEPT !.at = "config"]
    /\ UNCHANGED notHooks

\* echo, git config core.hooksPath .githooks, the closing messages; the script
\* has no set -e and ends with an echo, so its exit status is 0
Configure ==
    /\ hooks.at = "config"
    /\ hooks' = [GitConfig(hooks) EXCEPT
                    !.out = <<"Setting up Git hooks...", "Git hooks configured!">>,
                    !.at = "exited", !.exit = 0]
    /\ UNCHANGED notHooks

SetupNext ==
    \/ CheckEnvironment
    \/ CheckGit
    \/ CheckRepository
    \/ Configure

SpecSetup == SetupInit /\ [][SetupNext]_vars

\* --------------------------------------------------- using the theme toggle
ThemeInit ==
    /\ TocIdle
    /\ mdx = <<>>
    /\ deploy = NotRun
    /\ health = NotServing
    /\ hooks = NoSetup
    /\ \E t \in Themes, st \in SystemThemes :
           ui = [mounted |-> FALSE, theme |-> t, systemTheme |-> st, run |-> <<>>]

notUi == <<tocVars, mdx, deploy, health, hooks>>

\* useEffect(() => { setMounted(true) }, []): the button replaces the placeholder
ToggleMounted ==
    /\ ~ui.mounted
    /\ ui' = [ui EXCEPT !.mounted = TRUE]
    /\ UNCHANGED notUi

\* what ui.run records of a click or a change of the system preference: the
\* resolved theme before it, the stored theme and the resolved theme after it
Event(kind, before, theme, systemTheme) ==
    [kind |-> kind, before |-> before, theme |-> theme,
     after |-> CurrentTheme(theme, systemTheme)]

\* a click on the button (rendered only once mounted)
ToggleClick ==
    /\ ui.mounted
    /\ Len(ui.run) < MaxEvents
    /\ LET t == OnToggle(ui.theme, ui.systemTheme)
       IN  ui' = [ui EXCEPT
                    !.theme = t,
                    !.run = Append(@, Event("click", CurrentTheme(ui.theme, ui.systemTheme),
                                            t, ui.systemTheme))]
    /\ UNCHANGED notUi

\* the system preference changes (prefers-color-scheme)
SystemThemeChange(st) ==
    /\ st \in {"light", "dark"}
    /\ st # ui.systemTheme
    /\ Len(ui.run) < MaxEvents
    /\ ui' = [ui EXCEPT
                 !.systemTheme = st,
                 !.run = Append(@, Event("system", CurrentTheme(ui.theme, ui.systemTheme),
                                         ui.theme, st))]
    /\ UNCHANGED notUi

ThemeNext ==
    \/ ToggleMounted
    \/ ToggleClick
    \/ \E st \in SystemThemes : SystemThemeChange(st)

SpecTheme == ThemeInit /\ [][ThemeNext]_vars

\* ======================================================================
\* Properties
\* ======================================================================
IsHeading(e) == tag[e] \in {H2, H3}

\* the h2/h3 elements attached to the document
DocHeadings == {e \in Range(doc) : IsHeading(e)}

\* the targets of a batch that are reported as intersecting
Intersecting(batch) == {batch[i].target : i \in {j \in 1 .. Len(batch) : batch[j].isIntersecting}}

\* C1: after mount, a visibility report that names one observed heading as
\* intersecting leaves activeId equal to that heading's id, whatever activeId
\* was before (so a report naming a and then one naming b give a and then b):
\* no such report can end with another value.
C1_ReportSetsActiveId ==
    pc = "mounted" =>
        \A batch \in Batches : \A e \in Range(elements) :
            Intersecting(batch) = {e} =>
                /\ ENABLED VisibilityChange(batch)
                /\ ~ENABLED (VisibilityChange(batch) /\ activeId' # id[e])

\* a second heading became active after a first one with another id
C1_Witness ==
    /\ pc = "mounted"
    /\ Len(elements) = 2
    /\ id[elements[1]] = "section-2"
    /\ id[elements[2]] = "section-3"
    /\ activeId = "section-3"

\* C2: the step that unmounts the component leaves no live observer, and no
\* step changes activeId for as long as the component stays unmounted,
\* whatever visibility events fire.
C2_NoUpdateAfterUnmount ==
    [][/\ (pc = "mounted" /\ pc' = "unmounted") => observers' = <<>>
       /\ (pc = "unmounted" /\ pc' = "unmounted") => activeId' = activeId]_vars

\* unmounted after a heading had become active, with that heading still attached
C2_Witness ==
    /\ pc = "unmounted"
    /\ activeId # ""
    /\ Len(elements) = 2
    /\ Range(elements) \subseteq Range(doc)

\* C3: exactly one live observer, with its targets, while the component is
\* mounted; no live observer and no observed target while it is not.
C3_OneObserverWhileMounted ==
    /\ pc = "mounted" => Len(observers) = 1
    /\ pc # "mounted" => observers = <<>>

\* a remount in progress: the earlier mount had targets and all were released
C3_Witness ==
    /\ pc = "mounting"
    /\ elements # <<>>
    /\ observers = <<>>

\* the ids of the h2/h3 elements of the document are non-empty and distinct
UniqueHeadingIds ==
    \A e1, e2 \in DocHeadings : id[e1] # "" /\ (e1 # e2 => id[e1] # id[e2])

\* the k-th h2/h3 element of the document, counted by position
HeadingPositions == {i \in 1 .. Len(doc) : IsHeading(doc[i])}

NthHeading(k) ==
    doc[CHOOSE i \in HeadingPositions :
            Cardinality({j \in HeadingPositions : j < i}) = k - 1]

\* C4: for a document (unchanged since the layout) whose h2/h3 elements bear
\* unique ids, the mounted component's headings, and the list it renders, have
\* one entry per h2/h3 element, in document order, with its id, text and level.
C4_OneEntryPerHeading ==
    (pc = "mounted" /\ edits = 0 /\ UniqueHeadingIds) =>
        /\ Len(headings) = Cardinality(DocHeadings)
        /\ \A k \in 1 .. Len(headings) :
              /\ headings[k].id = id[NthHeading(k)]
              /\ headings[k].text = TextContent(NthHeading(k))
              /\ headings[k].level = (IF tag[NthHeading(k)] = H2 THEN 2 ELSE 3)
        /\ Cardinality(DocHeadings) > 0 =>
              /\ Render.nav
              /\ Len(Render.entries) = Cardinality(DocHeadings)
              /\ \A k \in 1 .. Len(headings) :
                    /\ Render.entries[k].key = id[NthHeading(k)]
                    /\ Render.entries[k].text = TextContent(NthHeading(k))

\* an h3 followed by an h2, both listed
C4_Witness ==
    /\ pc = "mounted"
    /\ edits = 0
    /\ UniqueHeadingIds
    /\ Len(doc) = 2
    /\ tag[doc[1]] = H3
    /\ tag[doc[2]] = H2
    /\ Len(headings) = 2

\* C5: for a document without h2/h3 elements (unchanged since the layout)
\* the component renders nothing, in every state.
C5_NoHeadingsRendersNothing ==
    (edits = 0 /\ DocHeadings = {}) => Render = NULL

\* mounted on a document that holds elements, none of them an h2 or h3
C5_Witness ==
    /\ pc = "mounted"
    /\ edits = 0
    /\ doc # <<>>
    /\ DocHeadings = {}
    /\ \E e \in Range(doc) : id[e] # ""

\* C6: activating the entry for id X while an element with id X is in the
\* document makes exactly one scrollIntoView call, on an element with id X,
\* smooth and aligned to the start, and prevents the default navigation.
C6_ClickScrollsToTarget ==
    (nav.clicked # 0 /\ nav.id # "" /\ \E e \in Range(doc) : id[e] = nav.id) =>
        /\ Len(nav.scrolls) = 1
        /\ nav.scrolls[1].el \in Range(doc)
        /\ id[nav.scrolls[1].el] = nav.id
        /\ nav.scrolls[1].behavior = "smooth"
        /\ nav.scrolls[1].block = "start"
        /\ nav.defaultPrevented

\* the entry for "section-2" was activated and its heading scrolled to
C6_Witness ==
    /\ nav.clicked # 0
    /\ nav.id = "section-2"
    /\ Len(nav.scrolls) = 1
    /\ IsHeading(nav.scrolls[1].el)

\* C7: activating an entry whose id no element of the document carries
\* raises no error, scrolls nothing and leaves headings and activeId as they were.
C7_StaleTargetIsNoOp ==
    [][(nav'.clicked # 0 /\ \A e \in Range(doc') : id'[e] # nav'.id) =>
          /\ ~nav'.threw
          /\ nav'.scrolls = <<>>
          /\ headings' = headings
          /\ activeId' = activeId]_vars

\* an entry was activated after its heading had been removed from the document
C7_Witness ==
    /\ nav.clicked # 0
    /\ nav.id # ""
    /\ nav.scrolls = <<>>
    /\ elements[nav.clicked] \notin Range(doc)
    /\ \A e \in Range(doc) : id[e] # nav.id

\* C8: headings changes only in the two steps of a mount (the initial state of
\* the first render, then the effect's scan): no report, activation or change
\* to the document changes it.
C8_HeadingsFrozen ==
    [][headings' # headings =>
          \/ pc = "unmounted" /\ pc' = "mounting"
          \/ pc = "mounting" /\ pc' = "mounted"]_vars

\* the document no longer matches the list, and a heading has become active
C8_Witness ==
    /\ pc = "mounted"
    /\ edits > 0
    /\ activeId # ""
    /\ headings # Items(QuerySelectorAll(doc, tag), tag, id)

\* C9: activeId is updated only once the scan and the registration of the
\* targets are complete; the only other change is the initial state of a mount.
C9_UpdateAfterRegistration ==
    [][activeId' # activeId =>
          \/ /\ pc = "mounted"
             /\ Len(headings) = Len(elements)
             /\ observers = <<Range(elements)>>
          \/ pc = "unmounted" /\ pc' = "mounting" /\ activeId' = ""]_vars

\* a heading with an id is active on a document that has not changed
C9_Witness ==
    /\ pc = "mounted"
    /\ edits = 0
    /\ \E e \in Range(elements) : activeId = id[e] /\ activeId # ""

\* C10: while mounted, the targets of the single observer are the collected
\* elements, which are the h2/h3 elements the document had at the scan.
C10_TargetsAreCollectedHeadings ==
    pc = "mounted" =>
        /\ Len(observers) = 1
        /\ observers[1] = Range(elements)
        /\ edits = 0 => observers[1] = DocHeadings

\* two headings without id (empty and duplicate ids) are both observed
C10_Witness ==
    /\ pc = "mounted"
    /\ edits = 0
    /\ Cardinality(DocHeadings) = 2
    /\ \A e \in DocHeadings : id[e] = ""
    /\ observers = <<DocHeadings>>

\* the positions of the rendered entries shown in the active style
ActiveEntries == {k \in 1 .. Len(Render.entries) : Render.entries[k].className = ActiveClass}

\* the ids in the list are non-empty and pairwise distinct
UniqueListIds ==
    \A i, j \in 1 .. Len(headings) :
        headings[i].id # "" /\ (i # j => headings[i].id # headings[j].id)

\* C11: an entry is rendered in the active style exactly when its id equals
\* activeId, every other entry in the inactive style; with unique non-empty
\* ids at most one entry is in the active style.
C11_ActiveIffIdMatches ==
    /\ Len(Render.entries) = (IF pc = "unmounted" THEN 0 ELSE Len(headings))
    /\ \A k \in 1 .. Len(Render.entries) :
          /\ Render.entries[k].className \in {ActiveClass, InactiveClass}
          /\ (Render.entries[k].className = ActiveClass) <=> (headings[k].id = activeId)
    /\ UniqueListIds => Cardinality(ActiveEntries) <= 1

\* two entries with distinct ids, the second one highlighted and the first not
C11_Witness ==
    /\ pc = "mounted"
    /\ Len(headings) = 2
    /\ UniqueListIds
    /\ ActiveEntries = {2}

\* the heading level of the element behind the k-th entry, from its tag
EntryIsH3(k) == tag[elements[k]] = H3

\* C12: in every rendered list an entry at level 3 is indented strictly more
\* than an entry at level 2, and two entries at the same level are indented
\* equally.
C12_IndentationByLevel ==
    \A i, j \in 1 .. Len(Render.entries) :
        /\ (EntryIsH3(i) /\ ~EntryIsH3(j)) =>
               Render.entries[i].paddingLeft > Render.entries[j].paddingLeft
        /\ (EntryIsH3(i) <=> EntryIsH3(j)) =>
               Render.entries[i].paddingLeft = Render.entries[j].paddingLeft

\* a list with an h2 entry followed by an h3 entry
C12_Witness ==
    /\ pc = "mounted"
    /\ Len(Render.entries) = 2
    /\ ~EntryIsH3(1)
    /\ EntryIsH3(2)
    /\ Render.entries[2].paddingLeft > Render.entries[1].paddingLeft

\* C13: the ids of the h2/h3 headings of a rendered document are pairwise
\* distinct.
C13_HeadingIdsUnique ==
    \A i, j \in 1 .. Len(mdx) :
        (i # j /\ mdx[i].tag \in {H2, H3} /\ mdx[j].tag \in {H2, H3}) => mdx[i].id # mdx[j].id

\* ---------------------------------------------------------------- C14
CoreChecks == {NpmCi, Lint, Tsc, Build}

Succeeded == deploy.at = "exited" /\ deploy.exit = 0

\* C14: the script prints its final success message and exits 0 only if
\* package.json was found, dependency installation, linting, type checking and
\* the production build each returned 0 and, when docker is available, docker
\* build returned 0 too; when docker is not available the Docker step is
\* skipped with a warning, docker build is not run, and a run whose four
\* checks succeeded ends with the success message and exit status 0.
C14_SuccessOnlyIfAllStepsSucceeded ==
    /\ (Succeeded \/ SuccessMessage \in Range(deploy.out)) =>
           /\ Succeeded
           /\ SuccessMessage \in Range(deploy.out)
           /\ deploy.env.packageJson
           /\ \A c \in CoreChecks : c \in Range(deploy.ran) /\ deploy.env.status[c] = 0
           /\ deploy.env.docker =>
                  DockerBuild \in Range(deploy.ran) /\ deploy.env.status[DockerBuild] = 0
           /\ ~deploy.env.docker =>
                  DockerWarning \in Range(deploy.out) /\ DockerBuild \notin Range(deploy.ran)
    /\ (/\ deploy.at = "exited"
        /\ deploy.env.packageJson
        /\ ~deploy.env.docker
        /\ \A c \in CoreChecks : deploy.env.status[c] = 0) => Succeeded

C14_Witness ==
    /\ Succeeded
    /\ ~deploy.env.docker
    /\ deploy.env.status[DockerBuild] # 0
    /\ DockerWarning \in Range(deploy.out)

\* ---------------------------------------------------------------- C15
CheckOrder == <<NpmCi, Lint, Tsc, Build, DockerBuild>>

IsCheck(c) == c # DockerRmi

\* the checks run so far, in the order they were run
ChecksRun == SelectSeq(deploy.ran, IsCheck)

\* C15: the checks are run in the order dependencies, lint, type check,
\* production build, Docker build; a check that returned a non-zero status is
\* the last command the script ran, and the script has then exited with a
\* non-zero status.
C15_FixedOrderStopAtFirstFailure ==
    deploy.at # "none" =>
        /\ Len(ChecksRun) <= Len(CheckOrder)
        /\ ChecksRun = SubSeq(CheckOrder, 1, Len(ChecksRun))
        /\ \A i \in 1 .. Len(deploy.ran) :
               (IsCheck(deploy.ran[i]) /\ deploy.env.status[deploy.ran[i]] # 0) =>
                   /\ i = Len(deploy.ran)
                   /\ deploy.at = "exited"
                   /\ deploy.exit # 0

C15_Witness ==
    /\ deploy.at = "exited"
    /\ deploy.exit # 0
    /\ deploy.ran = <<NpmCi, Lint, Tsc>>
    /\ deploy.env.status[Build] = 0

\* ---------------------------------------------------------------- C16
\* C16: every response of the health endpoint has HTTP status 200 and a body
\* whose status member is "ok", whatever NODE_ENV is, whatever the time is and
\* whatever was served before.
C16_HealthAlwaysOk ==
    health.env # "none" =>
        \A i \in 1 .. Len(health.responses) :
            /\ health.responses[i].status = 200
            /\ health.responses[i].body.status = "ok"

C16_Witness ==
    /\ health.env = Undefined
    /\ Len(health.responses) = 2
    /\ health.responses[1].body.timestamp < health.responses[2].body.timestamp

\* ---------------------------------------------------------------- C17
\* C17: an entry whose heading has the empty id is never rendered in the
\* active style, the initial state (activeId still empty) included.
C17_EmptyIdNeverActive ==
    \A k \in 1 .. Len(Render.entries) :
        headings[k].id = "" => Render.entries[k].className # ActiveClass

\* ---------------------------------------------------------------- C18
\* the batches whose entries are all for observed headings
ObservedBatches == {b \in Batches : \A i \in 1 .. Len(b) : b[i].target \in Range(elements)}

\* the position of the last intersecting entry of a batch, 0 if there is none
LastIntersecting(batch) ==
    LET hits == {i \in 1 .. Len(batch) : batch[i].isIntersecting}
    IN  IF hits = {} THEN 0 ELSE CHOOSE i \in hits : \A j \in hits : j <= i

\* C18: when the observer callback is handed a batch with at least one
\* intersecting entry, activeId is afterwards the id of the last intersecting
\* entry of the batch, wherever its heading is in the document.
C18_LastReportedWins ==
    pc = "mounted" =>
        \A batch \in ObservedBatches :
            LastIntersecting(batch) # 0 =>
                /\ ENABLED VisibilityChange(batch)
                /\ ~ENABLED (/\ VisibilityChange(batch)
                             /\ activeId' # id[batch[LastIntersecting(batch)].target])

\* two headings with distinct ids, the second active, and a batch naming both
\* as intersecting, the second heading first, makes the first heading active
C18_Witness ==
    /\ pc = "mounted"
    /\ Len(elements) = 2
    /\ id[elements[1]] = "section-2"
    /\ id[elements[2]] = "section-3"
    /\ activeId = "section-3"
    /\ ENABLED (/\ VisibilityChange(<<[target |-> elements[2], isIntersecting |-> TRUE],
                                      [target |-> elements[1], isIntersecting |-> TRUE]>>)
                /\ activeId' = "section-2")

\* ---------------------------------------------------------------- C19
\* C19: the step in which an entry is activated leaves activeId and headings
\* as they were; while the component stays mounted, activeId changes only in
\* a step that is a visibility report (no activation, no change to the
\* document, the tracker's list and observer untouched).
C19_ClickLeavesActiveId ==
    [][/\ nav'.clicked # 0 => (activeId' = activeId /\ headings' = headings)
       /\ (pc = "mounted" /\ pc' = "mounted" /\ activeId' # activeId) =>
              /\ nav' = NoNav
              /\ UNCHANGED <<docVars, headings, elements, observers>>]_vars

\* an entry other than the active one was activated and scrolled to, and the
\* active one is still the active one
C19_Witness ==
    /\ nav.clicked # 0
    /\ Len(nav.scrolls) = 1
    /\ activeId # ""
    /\ activeId # nav.id
    /\ \E k \in 1 .. Len(headings) : headings[k].id = activeId

\* ---------------------------------------------------------------- C20
\* the headings of the document, or the entries of the list, have an empty id
\* or share an id
DuplicateOrEmptyIds ==
    \/ \E e \in DocHeadings : id[e] = "" \/ \E f \in DocHeadings : f # e /\ id[f] = id[e]
    \/ pc = "mounted" /\ ~UniqueListIds

\* C20: with duplicate or empty heading ids, the mount (first render, then the
\* effect), every visibility report and every activation of an entry can be
\* taken and completes without an error, and the activation of an entry whose
\* id is empty makes no scrollIntoView call.
C20_FailsSilently ==
    DuplicateOrEmptyIds =>
        /\ pc = "unmounted" => ENABLED Mount
        /\ pc = "mounting" => ENABLED Effect
        /\ \A batch \in Batches : ENABLED VisibilityChange(batch)
        /\ pc = "mounted" =>
               \A i \in 1 .. Len(headings) :
                   /\ ENABLED Click(i)
                   /\ ~ENABLED (Click(i) /\ nav'.threw)
                   /\ headings[i].id = "" => ~ENABLED (Click(i) /\ nav'.scrolls # <<>>)
        /\ nav.clicked # 0 => ~nav.threw /\ (nav.id = "" => nav.scrolls = <<>>)

\* two headings with the empty id are in the document and in the list, and
\* the entry of the second was activated: nothing was scrolled, nothing thrown
C20_Witness ==
    /\ pc = "mounted"
    /\ Len(headings) = 2
    /\ \A k \in 1 .. 2 : headings[k].id = "" /\ elements[k] \in DocHeadings /\ id[elements[k]] = ""
    /\ nav.clicked = 2
    /\ nav.scrolls = <<>>
    /\ ~nav.threw

\* ---------------------------------------------------------------- C21
\* the scan of the document as it is now: one item per h2/h3, in document order
ScanOfDoc ==
    [k \in 1 .. Cardinality(DocHeadings) |->
        [id |-> id[NthHeading(k)],
         text |-> TextContent(NthHeading(k)),
         level |-> IF tag[NthHeading(k)] = H2 THEN 2 ELSE 3]]

\* C21: a mount starts from empty state whatever the previous mount left
\* (activeId empty and headings empty at the first render); its effect sets
\* headings to the scan of the document as it is then and leaves activeId
\* empty; and activeId leaves the empty value only in a visibility report of
\* the mounted component.
C21_StateDoesNotSurviveUnmount ==
    [][/\ (pc = "unmounted" /\ pc' = "mounting") => (activeId' = "" /\ headings' = <<>>)
       /\ (pc = "mounting" /\ pc' = "mounted") =>
              /\ activeId = ""
              /\ activeId' = ""
              /\ UNCHANGED docVars
              /\ headings' = ScanOfDoc
       /\ (activeId = "" /\ activeId' # "") =>
              /\ pc = "mounted"
              /\ pc' = "mounted"
              /\ nav' = NoNav
              /\ UNCHANGED <<docVars, headings, elements>>]_vars

\* the first render of a new mount after a previous mount that had collected
\* headings (its element list is still around): the document has changed
\* since, and the new instance starts with empty activeId and headings
C21_Witness ==
    /\ pc = "mounting"
    /\ elements # <<>>
    /\ Len(ScanOfDoc) # Len(elements)
    /\ activeId = ""
    /\ headings = <<>>

\* ---------------------------------------------------------------- C22
\* the lowest heading level present in the list
MinimumLevel ==
    CHOOSE m \in {headings[k].level : k \in 1 .. Len(headings)} :
        \A k \in 1 .. Len(headings) : m <= headings[k].level

\* C22: the indentation of every rendered entry is 0.75rem times
\* (level - minimumLevel), so the entries at the lowest level present have no
\* indentation, also when every heading is an h3.
C22_IndentationFromMinimumLevel ==
    \A k \in 1 .. Len(Render.entries) :
        Render.entries[k].paddingLeft = (headings[k].level - MinimumLevel) * 75

\* ---------------------------------------------------------------- C23
\* C23: when the document has no h2/h3 heading, the rendered article page has
\* no aside element.
C23_NoAsideWithoutHeadings ==
    (pc = "mounted" /\ DocHeadings = {} /\ headings = <<>>) => ~Page.aside.present

\* ---------------------------------------------------------------- C24
\* C24: in a directory without package.json the script runs no command at all
\* (no install, lint, type check, build or Docker build), and once it has
\* exited, its exit status is 1 and the error message has been printed.
C24_NoPackageJsonExitsFirst ==
    (deploy.at # "none" /\ ~deploy.env.packageJson) =>
        /\ deploy.ran = <<>>
        /\ deploy.at \in {"root", "exited"}
        /\ deploy.at = "exited" =>
               /\ deploy.exit = 1
               /\ "Error: Must be run from project root directory" \in Range(deploy.out)
               /\ SuccessMessage \notin Range(deploy.out)

\* the script has exited in a directory without package.json where every
\* command would have succeeded
C24_Witness ==
    /\ deploy.at = "exited"
    /\ ~deploy.env.packageJson
    /\ deploy.env.docker
    /\ \A c \in Commands : deploy.env.status[c] = 0
    /\ deploy.exit = 1

\* ---------------------------------------------------------------- C25
\* the run is outside Docker and CI, git is installed and the directory is
\* inside a git repository
HooksWanted ==
    /\ ~hooks.env.dockerenv
    /\ ~hooks.env.ci
    /\ ~hooks.env.dockerBuild
    /\ hooks.env.git
    /\ hooks.env.repo

\* C25: core.hooksPath is changed only in a run outside Docker and CI, with
\* git installed, inside a git repository, and then to .githooks; in every
\* other run the value is never touched and the script exits with status 0
\* (it exits with 0 in every run).
C25_HooksOnlyWhenWanted ==
    hooks.at # "none" =>
        /\ hooks.hooksPath # hooks.env.hooksPath =>
               (HooksWanted /\ hooks.hooksPath = GitHooksDir)
        /\ ~HooksWanted => (hooks.hooksPath = hooks.env.hooksPath /\ hooks.at # "config")
        /\ hooks.at = "exited" =>
               /\ hooks.exit = 0
               /\ (HooksWanted /\ hooks.env.configStatus = 0) => hooks.hooksPath = GitHooksDir

\* a run in CI, inside a repository with git installed, where git config
\* would have worked, has exited and left core.hooksPath unset
C25_Witness ==
    /\ hooks.at = "exited"
    /\ hooks.env.ci
    /\ ~hooks.env.dockerenv
    /\ ~hooks.env.dockerBuild
    /\ hooks.env.git
    /\ hooks.env.repo
    /\ hooks.env.configStatus = 0
    /\ hooks.env.hooksPath = Unset
    /\ hooks.hooksPath = Unset

\* ---------------------------------------------------------------- C26
ClickEvents == {i \in 1 .. Len(ui.run) : ui.run[i].kind = "click"}

\* C26: a click stores light when the resolved theme before it is dark and
\* dark otherwise, so the stored theme after a click is light or dark and is
\* the resolved theme; and two consecutive clicks from a resolved theme of
\* light or dark end in that resolved theme.
C26_ToggleFlipsResolvedTheme ==
    ui.theme # "none" =>
        /\ \A i \in ClickEvents :
              /\ ui.run[i].theme = (IF ui.run[i].before = "dark" THEN "light" ELSE "dark")
              /\ ui.run[i].theme \in {"light", "dark"}
              /\ ui.run[i].after = ui.run[i].theme
        /\ \A i \in ClickEvents :
              (i + 1 \in ClickEvents /\ ui.run[i].before \in {"light", "dark"}) =>
                  ui.run[i + 1].after = ui.run[i].before
        /\ (ui.run # <<>> /\ Len(ui.run) \in ClickEvents) => ui.theme \in {"light", "dark"}

\* two clicks in a row from a resolved dark theme, under a dark system theme:
\* light after the first, dark again after the second, and stored as dark
C26_Witness ==
    /\ Len(ui.run) = 2
    /\ ClickEvents = {1, 2}
    /\ ui.systemTheme = "dark"
    /\ ui.run[1].before = "dark"
    /\ ui.run[1].theme = "light"
    /\ ui.theme = "dark"

\* ---------------------------------------------------------------- C27
\* the batches that report no element as intersecting
LeavingBatches == {b \in Batches : Intersecting(b) = {}}

\* C27: a visibility report without an intersecting entry leaves activeId as
\* it is, in every state: activeId is not cleared when the active heading
\* leaves the viewport.
C27_LeavingKeepsActiveId ==
    \A batch \in LeavingBatches :
        /\ ENABLED VisibilityChange(batch)
        /\ ~ENABLED (VisibilityChange(batch) /\ activeId' # activeId)

\* the heading "section-2" is active and observed, and the report that it has
\* left the viewport leaves it active
C27_Witness ==
    /\ pc = "mounted"
    /\ activeId = "section-2"
    /\ \E e \in Range(elements) :
          /\ id[e] = activeId
          /\ e \in observers[1]
          /\ ENABLED (/\ VisibilityChange(<<[target |-> e, isIntersecting |-> FALSE]>>)
                      /\ activeId' = "section-2")

\* ---------------------------------------------------------------- C28
\* the elements the live observer of the mount observes
Targets == IF observers = <<>> THEN {} ELSE observers[Len(observers)]

\* C28: a step of a mount that gives activeId a new non-empty value gives it
\* the id that an observed element, collected at that mount, has at that
\* moment; and on a document unchanged since the page was laid out (the
\* document is assumed static after the initial layout), activeId is in every
\* state of a mount empty or the id of a collected, observed element.
C28_ActiveIdFromObservedTarget ==
    [][/\ (activeId' # activeId /\ activeId' # "") =>
              /\ pc = "mounted"
              /\ \E e \in Range(elements) \cap Targets : id[e] = activeId'
       /\ (pc' \in {"mounting", "mounted"} /\ edits' = 0) =>
              \/ activeId' = ""
              \/ \E e \in Range(elements') \cap Targets' : id'[e] = activeId']_vars

\* "section-2" is active, the id of an observed heading, while the document
\* also has an unobserved element with another id
C28_Witness ==
    /\ pc = "mounted"
    /\ activeId = "section-2"
    /\ \E e \in Range(elements) \cap Targets : id[e] = "section-2"
    /\ \E f \in Range(doc) \ Targets : id[f] = "section-3"

\* ---------------------------------------------------------------- C29
\* a slug: only a-z, 0-9 and hyphens, no hyphen first or last, no two in a row
IsSlug(s) ==
    /\ \A i \in 1 .. Len(s) : IsAlnum(s[i]) \/ s[i] = "-"
    /\ s # <<>> => (s[1] # "-" /\ s[Len(s)] # "-")
    /\ \A i \in 1 .. Len(s) - 1 : ~(s[i] = "-" /\ s[i + 1] = "-")

\* C29: for every text, slugify returns a string of a-z, 0-9 and '-' without
\* a leading hyphen, a trailing hyphen or two adjacent hyphens, and slugify
\* of the result is the result.
C29_SlugifyShapeAndIdempotent ==
    \A i \in 1 .. Len(mdx) :
        mdx[i].children # NonString =>
            /\ mdx[i].id = slugify(mdx[i].children)
            /\ IsSlug(mdx[i].id)
            /\ slugify(mdx[i].id) = mdx[i].id

\* " B-" has an upper-case letter between a space and a hyphen: its slug is "b"
C29_Witness ==
    /\ Len(mdx) = 1
    /\ mdx[1].children = <<" ", "B", "-">>
    /\ mdx[1].id = <<"b">>

====
